---------------------------- MODULE Spec2Model ----------------------------
(***************************************************************************)
(* A model of myping (src/ping.c): the ICMP checksum and codec, the        *)
(* five-slot probe window and the epoll-driven session loop.               *)
(*                                                                         *)
(* Memory is modelled as sequences of bytes; C index i is TLA+ index i+1.  *)
(* A uint16_t read from memory depends on the host's byte order, which is  *)
(* the variable bigEndian (fixed for a run).  A uint64_t is kept as its    *)
(* eight bytes in memory order: the program only ever copies it.           *)
(* Times are integer milliseconds (the double returned by time_in_ms).     *)
(***************************************************************************)
EXTENDS Integers, Sequences, FiniteSets, TLC

VARIABLES
    bigEndian,   \* byte order of the host the binary runs on
    ip,          \* argv[1], the textual target address
    pid,         \* getpid()
    seq,         \* static int seq                       (ping.c:205)
    send_times,  \* static double send_times[TIMEOUT]    (ping.c:206)
    now,         \* time_in_ms() at the latest timer event
    pc,          \* "Idle" (blocked in epoll_wait) or "Exited"
    out,         \* the lines printed on stdout so far: a bag of
                 \* [line, seq] (last.printed has the latest in full)
    sent,        \* the datagrams handed to sendto with success, in order
    last,        \* the event handled by the latest loop iteration
    creq,        \* codec harness: the icmp_t given to icmp_serialize
    cbuf,        \* codec harness: the 16 bytes at the ICMP offset of buf
    cnrecv,      \* codec harness: the length recvfrom reported
    cres,        \* codec harness: the result of parse_reply
    cflip,       \* codec harness: the bit inverted on the wire, or -1
    cstage,      \* codec harness: "off", "input", "wire", "flipped", "parsed"
    kbuf,        \* checksum harness: the buffer given to icmp_checksum
    kbelow,      \* checksum harness: the byte in memory just below the buffer
    ksum,        \* checksum harness: icmp_checksum(buf, len)
    kpad,        \* checksum harness: icmp_checksum of buf with one more 0 byte
    kstage       \* checksum harness: "off", "input", "summed", "padded",
                 \* "inserted"

sessionVars == <<seq, send_times, now, pc, out, sent, last>>
codecVars   == <<creq, cbuf, cnrecv, cres, cflip, cstage>>
sumVars     == <<kbuf, kbelow, ksum, kpad, kstage>>
envVars     == <<bigEndian, ip, pid>>
vars        == <<bigEndian, ip, pid, seq, send_times, now, pc, out, sent,
                 last, creq, cbuf, cnrecv, cres, cflip, cstage,
                 kbuf, kbelow, ksum, kpad, kstage>>

---------------------------------------------------------------------------
(* Program constants *)

TIMEOUT          == 5
MTU              == 1500
IPV4_HEADER_SIZE == 20
SizeofIcmp       == 16
TimerIntervalMs  == 1000
EchoRequestType  == 8

(* Bounds of the model *)

MaxSeq     == 10   \* probes sent in one run
MaxReplies == 2    \* reply lines printed in one run
MaxBufLen  == 6    \* bytes in a buffer given to icmp_checksum on its own

U16 == 65536

StartMs    == 10 * 1000                 \* time_in_ms() when the loop starts
RecvDelays == {42}                      \* ms from a timer event to a socket event
Pids       == {4660 + U16}              \* 0x11234: getpid() & 0xffff = 0x1234
ForeignId  == 13330                     \* another ping's identifier
Args       == {"192.0.2.1", "example"}  \* argv[1]
WellFormed == {"192.0.2.1"}             \* dotted-decimal IPv4 strings
ReplyTtl   == 64

---------------------------------------------------------------------------
(* Byte-level helpers *)

\* *(const uint16_t*)p where p[0] = b0, p[1] = b1
load16(b0, b1) == IF bigEndian THEN b0 * 256 + b1 ELSE b0 + 256 * b1

\* the two bytes a uint16_t v occupies in memory
store16(v) == IF bigEndian THEN <<v \div 256, v % 256>>
                           ELSE <<v % 256, v \div 256>>

htons(v) == IF bigEndian THEN v ELSE (v % 256) * 256 + (v \div 256)

\* faulty variant: the conversion back to host order is left out
Mut_ntohs(v) == v

ntohs(v) == IF bigEndian THEN v ELSE (v % 256) * 256 + (v \div 256)

RECURSIVE LittleDigits(_, _)
LittleDigits(v, n) ==
    IF n = 0 THEN <<>> ELSE <<v % 256>> \o LittleDigits(v \div 256, n - 1)

RECURSIVE Reverse(_)
Reverse(s) == IF s = <<>> THEN <<>> ELSE Reverse(Tail(s)) \o <<Head(s)>>

\* the eight bytes a uint64_t v occupies in memory
store64(v) == IF bigEndian THEN Reverse(LittleDigits(v, 8))
                           ELSE LittleDigits(v, 8)

---------------------------------------------------------------------------
(* icmp_checksum, ping.c:28-49 *)

\* faulty variant: the loop stops one word early (i < len - 2)
RECURSIVE Mut_SumWords(_, _, _)
Mut_SumWords(buf, i, len) ==
    IF i >= len - 2 THEN 0
    ELSE load16(buf[i + 1], buf[i + 2]) + Mut_SumWords(buf, i + 2, len)

\* the for loop of lines 41-44: the words at C offsets i, i+2, ... < len
RECURSIVE SumWords(_, _, _)
SumWords(buf, i, len) ==
    IF i >= len THEN 0
    ELSE load16(buf[i + 1], buf[i + 2]) + SumWords(buf, i + 2, len)

\* lines 32-39: an odd len is decremented first, then the byte at the
\* decremented len - 1 is taken as the first byte of the extra word; for
\* len = 1 that is the byte in memory just below buf
OddWord(buf, len) ==
    IF len % 2 = 1 /\ len > 0
    THEN load16(IF len = 1 THEN kbelow ELSE buf[(len - 1) - 1 + 1], 0)
    ELSE 0

EvenLen(len) == IF len % 2 = 1 /\ len > 0 THEN len - 1 ELSE len

\* lines 46-48
Fold(checksum) ==
    LET c1 == (checksum \div U16) + (checksum % U16)
        c2 == c1 + (c1 \div U16)
    IN  (U16 - 1) - (c2 % U16)

icmp_checksum(buf, len) ==
    Fold(OddWord(buf, len) + SumWords(buf, 0, EvenLen(len)))

---------------------------------------------------------------------------
(* icmp_serialize, ping.c:54-72 (always called with len = sizeof(icmp_t)) *)

\* buf with the bytes from index at on overwritten
Replace(buf, at, bytes) ==
    SubSeq(buf, 1, at - 1) \o bytes \o SubSeq(buf, at + Len(bytes), Len(buf))

icmp_serialize(req) ==
    LET zeroed == <<req.type, req.code>> \o <<0, 0>>
                  \o store16(htons(req.id)) \o store16(htons(req.seq))
                  \o req.ts
    IN  Replace(zeroed, 3, store16(icmp_checksum(zeroed, SizeofIcmp)))

---------------------------------------------------------------------------
(* parse_reply, ping.c:99-131 *)

\* len < sizeof(icmp_t): the int is converted to size_t, so a negative
\* len compares as a huge value and is not less
LenTooShort(len) == len >= 0 /\ len < SizeofIcmp

Take(buf, n) == SubSeq(buf, 1, n)

\* the icmp_t overlaid on buf, fields as read from memory (line 105)
Overlay(buf) ==
    [type     |-> buf[1],
     code     |-> buf[2],
     checksum |-> load16(buf[3], buf[4]),
     id       |-> load16(buf[5], buf[6]),
     seq      |-> load16(buf[7], buf[8]),
     ts       |-> SubSeq(buf, 9, 16)]

NoReply == [type |-> 0, code |-> 0, checksum |-> 0, id |-> 0, seq |-> 0,
            ts |-> <<>>]

\* lines 112-123
ChecksumMatches(buf, len) ==
    Overlay(buf).checksum = icmp_checksum(Replace(Take(buf, len), 3, <<0, 0>>), len)

\* step: where the function returned; "ub" is malloc/memcpy with a
\* negative length, whose outcome the caller draws
parse_reply(buf, len) ==
    LET raw == Overlay(buf) IN
    IF LenTooShort(len) THEN [ret |-> -1, step |-> "len", reply |-> NoReply]
    ELSE IF raw.type # 0 \/ raw.code # 0
         THEN [ret |-> -1, step |-> "type", reply |-> raw]
    ELSE IF len < 0 THEN [ret |-> -1, step |-> "ub", reply |-> raw]
    ELSE IF ~ChecksumMatches(buf, len)
         THEN [ret |-> -1, step |-> "checksum", reply |-> raw]
    ELSE [ret |-> 0, step |-> "ok",
          reply |-> [raw EXCEPT !.checksum = ntohs(raw.checksum),
                                !.id = ntohs(raw.id),
                                !.seq = ntohs(raw.seq)]]

---------------------------------------------------------------------------
(* The environment: clock, process id, address conversion, the network *)

\* getpid() & 0xffff                                  (ping.c:227, 258)
Id16 == pid % U16

\* the conversion of an int to uint16_t               (ping.c:228)
WireSeq(k) == k % U16

\* time(NULL) when time_in_ms() returns t
TimeSec(t) == t \div 1000

\* the clock when the timer fires for the k-th time: it_interval is 1 s
TickTime(k) == StartMs + k * TimerIntervalMs

\* inet_pton(AF_INET, ip, ..): 1 on success, 0 when ip is not a well-formed
\* address; -1 only for an unsupported address family
inet_pton(a) == IF a \in WellFormed THEN 1 ELSE 0

Pow2(n) == 2 ^ n

\* buf with bit k (0..8*Len(buf)-1) inverted
FlipBit(buf, k) ==
    LET i == (k \div 8) + 1
        b == buf[i]
        w == Pow2(k % 8)
    IN  [buf EXCEPT ![i] = IF (b \div w) % 2 = 1 THEN b - w ELSE b + w]

\* what a peer puts on the wire: type, code, id, seq and the echoed payload
IcmpBytes(type, code, id, s, t) ==
    icmp_serialize([type |-> type, code |-> code, checksum |-> 0, id |-> id,
                    seq |-> s, ts |-> store64(TimeSec(t))])

Datagram(n, bytes) == [nrecv |-> n, ttl |-> ReplyTtl, icmp |-> bytes]

NoDatagram == [nrecv |-> 0, ttl |-> 0, icmp |-> <<>>]

\* sequence numbers a datagram may carry, relative to the counter: two
\* below the live window, the live window, and the one not sent yet
SeqOffsets == (0 - TIMEOUT - 1) .. 1

FullLen == IPV4_HEADER_SIZE + SizeofIcmp

\* lengths recvfrom may report for a datagram cut short
ShortLens == {0, IPV4_HEADER_SIZE - 1, IPV4_HEADER_SIZE, FullLen - 1}

\* well-formed echo replies, for this session's identifier and a foreign one
ValidReplies ==
    {Datagram(FullLen, IcmpBytes(0, 0, Id16, WireSeq(seq + d), now)) :
        d \in {x \in SeqOffsets : seq + x >= 0}}
    \cup {Datagram(FullLen, IcmpBytes(0, 0, ForeignId, WireSeq(seq), now))}

\* an echo request, a reply with a bad code, a reply with one bit inverted
Malformed ==
    {Datagram(FullLen, IcmpBytes(EchoRequestType, 0, Id16, WireSeq(seq), now)),
     Datagram(FullLen, IcmpBytes(0, 1, Id16, WireSeq(seq), now)),
     Datagram(FullLen, FlipBit(IcmpBytes(0, 0, Id16, WireSeq(seq), now), 7 * 8))}

\* datagrams cut short; the bytes at the ICMP offset are then whatever the
\* buffer held before
Truncated ==
    {Datagram(n, IcmpBytes(0, 0, Id16, WireSeq(seq), now)) : n \in ShortLens}

RecvError == Datagram(-1, <<>>)

Datagrams == ValidReplies \cup Malformed \cup Truncated \cup {RecvError}

---------------------------------------------------------------------------
(* The probe window and the two handlers *)

Slots == 0 .. (TIMEOUT - 1)

TimeoutLine(k)     == [line |-> "timeout", seq |-> k]
ReplyLine(s, l, t) == [line |-> "reply", seq |-> s, ttl |-> l, time |-> t]

\* bookkeeping for out
Key(l)      == [line |-> l.line, seq |-> l.seq]
Count(B, e) == IF e \in DOMAIN B THEN B[e] ELSE 0
AddLine(B, l) ==
    IF Key(l) \in DOMAIN B THEN [B EXCEPT ![Key(l)] = @ + 1]
    ELSE B @@ (Key(l) :> 1)
RECURSIVE AddLines(_, _)
AddLines(B, ls) ==
    IF ls = <<>> THEN B ELSE AddLines(AddLine(B, Head(ls)), Tail(ls))
RECURSIVE Total(_, _)
Total(B, S) ==
    IF S = {} THEN 0
    ELSE LET e == CHOOSE x \in S : TRUE IN B[e] + Total(B, S \ {e})
ReplyCount(B)   == Total(B, {e \in DOMAIN B : e.line = "reply"})
TimeoutCount(B) == Total(B, {e \in DOMAIN B : e.line = "timeout"})
NoLines == <<>>

\* ping.c:210 and 262
Index(s) == s % TIMEOUT

\* faulty variant: the comparison is strict
Mut_Stale(rseq, cur) == rseq < cur - TIMEOUT

\* ping.c:263
Stale(rseq, cur) == rseq <= cur - TIMEOUT

\* faulty variant: the slot is cleared before it is subtracted
Mut_Elapsed(t, slot) == t - 0

\* ping.c:266
Elapsed(t, slot) == t - slot

\* faulty variant: the line names the probe being sent, not the one it replaces
Mut_TimeoutReport(cur, slot) ==
    IF slot # 0 THEN <<TimeoutLine(cur)>> ELSE <<>>

\* ping.c:211-213
TimeoutReport(cur, slot) ==
    IF slot # 0 THEN <<TimeoutLine(cur - TIMEOUT)>> ELSE <<>>

\* faulty variant: the request is built before the counter is incremented
Mut_Request(cur, t) ==
    [type |-> EchoRequestType, code |-> 0, checksum |-> 0, id |-> Id16,
     seq |-> WireSeq(cur - 1), ts |-> store64(TimeSec(t))]

\* ping.c:223-229
Request(cur, t) ==
    [type |-> EchoRequestType, code |-> 0, checksum |-> 0, id |-> Id16,
     seq |-> WireSeq(cur), ts |-> store64(TimeSec(t))]

\* send_req, ping.c:75-95: the address is converted, only -1 is fatal, and
\* addr.sin_addr keeps the zeroes of the memset when nothing was converted
send_req(req, cur, t, sendOk) ==
    IF inet_pton(ip) = -1 \/ ~sendOk
    THEN [pc |-> "Exited", sent |-> sent]
    ELSE [pc |-> "Idle",
          sent |-> Append(sent,
                    [k |-> cur, at |-> t, wire |-> icmp_serialize(req),
                     to |-> IF inet_pton(ip) = 1 THEN ip ELSE "0.0.0.0"])]

\* on_timeout, ping.c:209-231, with seq already incremented (ping.c:317);
\* cur is the counter, t the clock, readOk/sendOk the results of read/sendto
on_timeout(cur, t, readOk, sendOk) ==
    LET index == Index(cur)
        s == IF readOk THEN send_req(Request(cur, t), cur, t, sendOk)
                       ELSE [pc |-> "Exited", sent |-> sent]
    IN  [pc         |-> s.pc,
         send_times |-> [send_times EXCEPT ![index] = t],
         printed    |-> TimeoutReport(cur, send_times[index]),
         sent       |-> s.sent]

\* the results parse_reply can have; a negative length that passes the
\* length and type checks reaches malloc and memcpy with a huge size
ParseOutcomes(buf, len) ==
    LET r == parse_reply(buf, len) IN
    IF r.step # "ub" THEN {r}
    ELSE {[r EXCEPT !.step = "crash"],
          [r EXCEPT !.step = "checksum"],
          [ret |-> 0, step |-> "ok",
           reply |-> [r.reply EXCEPT !.checksum = ntohs(r.reply.checksum),
                                     !.id = ntohs(r.reply.id),
                                     !.seq = ntohs(r.reply.seq)]]}

\* every return and exit of on_recv before line 262
Dropped(state) ==
    [pc |-> state, send_times |-> send_times, printed |-> <<>>]

\* faulty variant: the slot is not cleared when the reply is reported
Mut_on_recv(dg, r, t) ==
    IF dg.nrecv = -1 \/ r.step = "crash" THEN Dropped("Exited")
    ELSE IF r.ret = -1 THEN Dropped("Idle")
    ELSE IF r.reply.id # Id16 THEN Dropped("Idle")
    ELSE IF Stale(r.reply.seq, seq) THEN Dropped("Idle")
    ELSE LET index == Index(r.reply.seq) IN
         [pc         |-> "Idle",
          send_times |-> send_times,
          printed    |-> <<ReplyLine(r.reply.seq, dg.ttl,
                                     Elapsed(t, send_times[index]))>>]

\* on_recv, ping.c:238-269; dg is what recvfrom delivered, r the result
\* of parse_reply, t the clock
on_recv(dg, r, t) ==
    IF dg.nrecv = -1 \/ r.step = "crash" THEN Dropped("Exited")
    ELSE IF r.ret = -1 THEN Dropped("Idle")
    ELSE IF r.reply.id # Id16 THEN Dropped("Idle")
    ELSE IF Stale(r.reply.seq, seq) THEN Dropped("Idle")
    ELSE LET index == Index(r.reply.seq) IN
         [pc         |-> "Idle",
          send_times |-> [send_times EXCEPT ![index] = 0],
          printed    |-> <<ReplyLine(r.reply.seq, dg.ttl,
                                     Elapsed(t, send_times[index]))>>]

---------------------------------------------------------------------------
(* The codec harness: serialize, optionally invert one bit, parse *)

NoReq == [type |-> 0, code |-> 0, checksum |-> 0, id |-> 0, seq |-> 0,
          ts |-> <<>>]
NoRes == [ret |-> 0, step |-> "none", reply |-> NoReply]

AllOnes == [i \in 1..8 |-> 255]

CodecRequests ==
    [type : {0, EchoRequestType}, code : {0}, checksum : {0},
     id : {0, Id16, U16 - 1}, seq : {0, 1, 255, 256, U16 - 1},
     ts : {store64(0), store64(TimeSec(StartMs)), AllOnes}]
    \cup
    [type : {0}, code : {1}, checksum : {0}, id : {Id16}, seq : {1},
     ts : {store64(TimeSec(StartMs))}]

\* lengths recvfrom may report; the buffer holds stale zero bytes after
\* the sixteen of cbuf
CodecLens == ShortLens \cup {FullLen, FullLen + 1, FullLen + 2}

CodecBuf == cbuf \o <<0, 0>>

CodecOff ==
    /\ creq = NoReq /\ cbuf = <<>> /\ cnrecv = 0 /\ cres = NoRes
    /\ cflip = -1
    /\ cstage = "off"

CSerialize ==
    /\ cstage = "input"
    /\ cbuf' = icmp_serialize(creq)
    /\ cstage' = "wire"
    /\ UNCHANGED <<creq, cnrecv, cres, cflip>>
    /\ UNCHANGED <<envVars, sessionVars, sumVars>>

CFlip ==
    /\ cstage = "wire"
    /\ \E k \in 0 .. (8 * SizeofIcmp - 1) :
          /\ cbuf' = FlipBit(cbuf, k)
          /\ cflip' = k
    /\ cstage' = "flipped"
    /\ UNCHANGED <<creq, cnrecv, cres>>
    /\ UNCHANGED <<envVars, sessionVars, sumVars>>

\* on_recv lines 250-253: the ICMP part starts IPV4_HEADER_SIZE bytes in
CParse ==
    /\ cstage \in {"wire", "flipped"}
    /\ \E n \in CodecLens :
          /\ cstage = "flipped" => n = FullLen
          /\ n <= MTU
          /\ cnrecv' = n
          /\ cres' \in ParseOutcomes(CodecBuf, n - IPV4_HEADER_SIZE)
    /\ cstage' = "parsed"
    /\ UNCHANGED <<creq, cbuf, cflip>>
    /\ UNCHANGED <<envVars, sessionVars, sumVars>>

---------------------------------------------------------------------------
(* The checksum harness: icmp_checksum over a buffer, over the buffer with *)
(* one more zero byte, and the store of the result at line 71              *)

SumBytes == {0, 1, 255}

\* the buffers of length n over SumBytes; from four bytes on, the checksum
\* field (C offsets 2 and 3) is zero
SumBuffersOfLen(n) ==
    {b \in [1 .. n -> SumBytes] : n >= 4 => b[3] = 0 /\ b[4] = 0}

SumBuffers == UNION {SumBuffersOfLen(n) : n \in 1 .. MaxBufLen}

SumOff ==
    /\ kbuf = <<>> /\ kbelow = 0 /\ ksum = 0 /\ kpad = 0
    /\ kstage = "off"

KChecksum ==
    /\ kstage = "input"
    /\ ksum' = icmp_checksum(kbuf, Len(kbuf))
    /\ kstage' = "summed"
    /\ UNCHANGED <<kbuf, kbelow, kpad>>
    /\ UNCHANGED <<envVars, sessionVars, codecVars>>

KPadded ==
    /\ kstage = "summed"
    /\ Len(kbuf) % 2 = 1
    /\ kpad' = icmp_checksum(kbuf \o <<0>>, Len(kbuf) + 1)
    /\ kstage' = "padded"
    /\ UNCHANGED <<kbuf, kbelow, ksum>>
    /\ UNCHANGED <<envVars, sessionVars, codecVars>>

\* icmp->checksum = icmp_checksum(buf, len)                    (ping.c:71)
KInsert ==
    /\ kstage = "summed"
    /\ Len(kbuf) >= 4
    /\ kbuf' = Replace(kbuf, 3, store16(ksum))
    /\ kstage' = "inserted"
    /\ UNCHANGED <<kbelow, ksum, kpad>>
    /\ UNCHANGED <<envVars, sessionVars, codecVars>>

---------------------------------------------------------------------------
(* The session loop, ping.c:304-324 *)

NoEvent == [fd |-> "none", dg |-> NoDatagram, res |-> NoRes,
            printed |-> <<>>]

SessionStart ==
    /\ seq = 0
    /\ send_times = [i \in Slots |-> 0]
    /\ now = StartMs
    /\ pc = "Idle"
    /\ out = NoLines
    /\ sent = <<>>
    /\ last = NoEvent

\* the session runs on a little-endian host with a well-formed argument;
\* the codec is checked on both byte orders, the argument under ArgSpec
EnvInit ==
    /\ bigEndian = FALSE
    /\ ip \in WellFormed
    /\ pid \in Pids

Init == EnvInit /\ SessionStart /\ CodecOff /\ SumOff

\* epoll_wait reports the timer: seq++, on_timeout
TimerReady ==
    /\ pc = "Idle"
    /\ Len(sent) < MaxSeq
    /\ \E readOk \in BOOLEAN, sendOk \in BOOLEAN :
          \E h \in {on_timeout(seq + 1, TickTime(seq + 1), readOk, sendOk)} :
              /\ seq' = seq + 1
              /\ now' = TickTime(seq + 1)
              /\ pc' = h.pc
              /\ send_times' = h.send_times
              /\ out' = AddLines(out, h.printed)
              /\ sent' = h.sent
              /\ last' = [NoEvent EXCEPT !.fd = "tfd", !.printed = h.printed]
    /\ UNCHANGED <<envVars, codecVars, sumVars>>

\* epoll_wait reports the socket: on_recv
SocketReady ==
    /\ pc = "Idle"
    /\ ReplyCount(out) < MaxReplies
    /\ \E dg \in Datagrams, d \in RecvDelays :
          \E r \in (IF dg.nrecv = -1 THEN {NoRes}
                    ELSE ParseOutcomes(dg.icmp, dg.nrecv - IPV4_HEADER_SIZE)) :
             \E h \in {on_recv(dg, r, now + d)} :
                 /\ pc' = h.pc
                 /\ send_times' = h.send_times
                 /\ out' = AddLines(out, h.printed)
                 /\ last' = [fd |-> "sfd", dg |-> dg, res |-> r,
                              printed |-> h.printed]
    /\ UNCHANGED <<seq, now, sent, envVars, codecVars, sumVars>>

\* the echo reply a peer returns for the sent request p
ReplyTo(p) == Datagram(FullLen, IcmpBytes(0, 0, Id16, WireSeq(p.k), p.at))

\* copies of the replies to the requests sent so far
SentReplies == {ReplyTo(sent[i]) : i \in 1 .. Len(sent)}

\* epoll_wait reports the socket, the network delivering only replies to
\* sent requests, late, repeated or out of order: on_recv
EchoReady ==
    /\ pc = "Idle"
    /\ ReplyCount(out) < MaxReplies
    /\ \E dg \in SentReplies, d \in RecvDelays :
          \E r \in ParseOutcomes(dg.icmp, dg.nrecv - IPV4_HEADER_SIZE) :
             \E h \in {on_recv(dg, r, now + d)} :
                 /\ pc' = h.pc
                 /\ send_times' = h.send_times
                 /\ out' = AddLines(out, h.printed)
                 /\ last' = [fd |-> "sfd", dg |-> dg, res |-> r,
                              printed |-> h.printed]
    /\ UNCHANGED <<seq, now, sent, envVars, codecVars, sumVars>>

\* epoll_wait fails or reports a descriptor that is neither
WaitFail ==
    /\ pc = "Idle"
    /\ pc' = "Exited"
    /\ last' = [NoEvent EXCEPT !.fd = "unknown"]
    /\ UNCHANGED <<seq, send_times, now, out, sent, envVars, codecVars,
                   sumVars>>

Next == TimerReady \/ SocketReady \/ WaitFail

Spec == Init /\ [][Next]_vars

\* the session on a network that only echoes
EchoNext == TimerReady \/ EchoReady \/ WaitFail

EchoSpec == Init /\ [][EchoNext]_vars

\* the session with the timer event handled whenever it stays ready: the
\* timer is periodic and epoll_wait is level-triggered
LiveSpec == Init /\ [][Next]_vars /\ WF_vars(TimerReady)

\* the session whatever argv[1] is
ArgInit ==
    /\ bigEndian = FALSE /\ ip \in Args /\ pid \in Pids
    /\ SessionStart /\ CodecOff /\ SumOff

ArgSpec == ArgInit /\ [][Next]_vars

\* the codec on its own
CodecInit ==
    /\ bigEndian \in BOOLEAN /\ ip \in WellFormed /\ pid \in Pids
    /\ SessionStart
    /\ creq \in CodecRequests
    /\ cbuf = <<>> /\ cnrecv = 0 /\ cres = NoRes /\ cflip = -1
    /\ cstage = "input"
    /\ SumOff

CodecNext == CSerialize \/ CFlip \/ CParse

CodecSpec == CodecInit /\ [][CodecNext]_vars

\* icmp_checksum on its own
SumInit ==
    /\ bigEndian \in BOOLEAN /\ ip \in WellFormed /\ pid \in Pids
    /\ SessionStart /\ CodecOff
    /\ kbuf \in SumBuffers
    /\ kbelow \in (IF Len(kbuf) = 1 THEN SumBytes ELSE {0})
    /\ ksum = 0 /\ kpad = 0
    /\ kstage = "input"

SumNext == KChecksum \/ KPadded \/ KInsert

SumSpec == SumInit /\ [][SumNext]_vars

\* the session once the counter is about to pass the 16-bit range, every
\* earlier probe having been answered
WrapStart == U16 - 3

WrapInit ==
    /\ EnvInit /\ CodecOff /\ SumOff
    /\ seq = WrapStart
    /\ send_times = [i \in Slots |-> 0]
    /\ now = TickTime(WrapStart)
    /\ pc = "Idle"
    /\ out = NoLines
    /\ sent = <<>>
    /\ last = NoEvent

WrapSpec == WrapInit /\ [][Next]_vars

---------------------------------------------------------------------------
(* Properties *)

\* the datagram a peer answers probe number s with, for identifier id
EchoReply(id, s) == Datagram(FullLen, IcmpBytes(0, 0, id, s, now))

\* the loop iteration just taken handled a socket event delivering dg
Received(dg) == last'.fd = "sfd" /\ last'.dg = dg

\* the loop iteration just taken left the window and the counter alone
\* and printed nothing
SilentlyDropped ==
    /\ last'.printed = <<>>
    /\ out' = out
    /\ send_times' = send_times
    /\ seq' = seq

\* C1 (state): while no reply line has been printed, the timeouts reported
\* are exactly one 'timeout seq=k' for each probe k whose fifth successor
\* has been reached by the counter (k + 5 <= seq), and nothing else; after
\* ten probes that is five timeouts, for probes 1..5.
C1_Reported ==
    ReplyCount(out) = 0 =>
        /\ \A e \in DOMAIN out : e.seq >= 1 /\ e.seq + TIMEOUT <= seq
        /\ \A k \in 1 .. seq :
              Count(out, TimeoutLine(k)) = IF k + TIMEOUT <= seq THEN 1 ELSE 0
        /\ TimeoutCount(out) = IF seq > TIMEOUT THEN seq - TIMEOUT ELSE 0

\* C1 (step): while no reply line has been printed, a 'timeout seq=k' line
\* is printed only by the timer event that moves the counter to k + 5, and
\* every timer event that moves the counter past 5 prints one.
C1_AtTick ==
    ReplyCount(out') = 0 =>
        /\ \A i \in 1 .. Len(last'.printed) :
              /\ last'.fd = "tfd"
              /\ seq' = seq + 1
              /\ last'.printed[i] = TimeoutLine(seq' - TIMEOUT)
        /\ (last'.fd = "tfd" /\ seq' > TIMEOUT) => Len(last'.printed) = 1

\* C1: window semantics, with no reply received every probe k is reported
\* as timed out exactly once, at the tick on which probe k + 5 is sent.
C1_WindowSemantics == [](C1_Reported) /\ [][C1_AtTick]_vars

C1_Witness ==
    /\ ReplyCount(out) = 0
    /\ seq = 10 /\ Len(sent) = 10 /\ pc = "Idle"
    /\ TimeoutCount(out) = 5
    /\ last.printed = <<TimeoutLine(5)>>

\* C2: a second valid reply for a sequence s whose first reply was just
\* matched (reported with the probe's true round-trip time, slot cleared),
\* arriving while s is still in the live window, prints no 'reply' line.
C2_DuplicateStep ==
    \A i \in 1 .. Len(sent) :
        LET s == sent[i].k IN
        ( /\ s > seq - TIMEOUT /\ s <= seq /\ s < U16
          /\ last.fd = "sfd" /\ last.dg = EchoReply(Id16, s)
          /\ \E d \in RecvDelays :
                last.printed = <<ReplyLine(s, ReplyTtl, now + d - sent[i].at)>>
          /\ send_times[Index(s)] = 0
          /\ Received(EchoReply(Id16, s)) )
        => last'.printed = <<>>

C2_DuplicateDropped == [][C2_DuplicateStep]_vars

\* C3: a valid reply with the session's identifier carrying a sequence s
\* with seq >= s + 5 is dropped: nothing is printed and the window is
\* unchanged.
C3_StaleStep ==
    \A d \in SeqOffsets :
        LET s == WireSeq(seq + d) IN
        (s + TIMEOUT <= seq /\ Received(EchoReply(Id16, s)))
        => SilentlyDropped /\ pc' = "Idle"

C3_StaleRejected == [][C3_StaleStep]_vars

C3_Witness ==
    /\ seq >= TIMEOUT
    /\ last.fd = "sfd" /\ last.dg = EchoReply(Id16, seq - TIMEOUT)
    /\ last.printed = <<>>
    /\ \A i \in Slots : send_times[i] # 0
    /\ pc = "Idle"

\* C4: a valid reply with the session's identifier for a probe s that was
\* sent at t0, is in the live window and whose slot still holds its send
\* time is reported as 'reply seq=s' with elapsed = receive time - t0;
\* slot s mod 5 is cleared, the other slots and the counter are unchanged.
C4_ResolveStep ==
    \A i \in 1 .. Len(sent) :
        LET s  == sent[i].k
            t0 == sent[i].at
        IN
        ( /\ s > seq - TIMEOUT /\ s <= seq /\ s < U16
          /\ send_times[Index(s)] # 0
          /\ Received(EchoReply(Id16, s)) )
        => /\ \E d \in RecvDelays :
                last'.printed = <<ReplyLine(s, ReplyTtl, (now + d) - t0)>>
           /\ out' = AddLine(out, ReplyLine(s, ReplyTtl, 0))
           /\ send_times' = [send_times EXCEPT ![s % TIMEOUT] = 0]
           /\ seq' = seq
           /\ pc' = "Idle"

OnWire(p) == ntohs(Overlay(p.wire).seq)

\* C5: across the wrap of the 16-bit wire sequence number a valid reply to
\* the most recently sent probe, its slot still set, is matched and
\* reported, and every timeout line names the number its probe carried on
\* the wire.
C5_WrapStep ==
    /\ \A i \in 1 .. Len(sent) :
          LET p == sent[i] IN
          ( /\ p.k = seq
            /\ send_times[Index(p.k)] # 0
            /\ Received(EchoReply(Id16, OnWire(p))) )
          => /\ \E d \in RecvDelays :
                  last'.printed = <<ReplyLine(OnWire(p), ReplyTtl, (now + d) - p.at)>>
             /\ send_times' = [send_times EXCEPT ![Index(p.k)] = 0]
    /\ \A n \in 1 .. Len(last'.printed) :
          last'.printed[n].line = "timeout" =>
              \E i \in 1 .. Len(sent) :
                  /\ sent[i].k = seq' - TIMEOUT
                  /\ last'.printed[n].seq = OnWire(sent[i])

C5_WrapCorrelation == [][C5_WrapStep]_vars

\* datagrams that fail a validation step or carry a foreign identifier
InvalidDatagrams ==
    Truncated \cup Malformed \cup {EchoReply(ForeignId, WireSeq(seq))}

\* C6: a datagram whose ICMP part is too short, whose type or code is not
\* 0, whose checksum does not match or whose identifier is foreign prints
\* nothing, leaves window and counter unchanged and returns the loop to
\* Idle.
C6_DropStep ==
    \A dg \in InvalidDatagrams :
        Received(dg) => SilentlyDropped /\ pc' = "Idle"

C6_InvalidDropped == [][C6_DropStep]_vars

\* C7: for every datagram length from 0 to MTU whose part after the IPv4
\* header is shorter than sizeof(icmp_t), parse_reply rejects at the
\* length check.
C7_ShortRejectedFirst ==
    ( /\ cstage = "parsed"
      /\ cnrecv >= 0 /\ cnrecv <= MTU
      /\ cnrecv - IPV4_HEADER_SIZE < SizeofIcmp )
    => cres.ret = -1 /\ cres.step = "len"

\* C8: when argv[1] is not a well-formed IPv4 address the first timer
\* event ends the process and no echo request is ever transmitted.
C8_MalformedAddressFatal ==
    ip \notin WellFormed =>
        /\ sent = <<>>
        /\ last.fd = "tfd" => pc = "Exited"

\* C9: a serialized packet with type 0 and code 0 in which any single bit
\* is inverted is rejected by parse_reply.
C9_CorruptionDetected ==
    ( /\ cstage = "parsed"
      /\ cflip >= 0
      /\ cnrecv = FullLen
      /\ creq.type = 0 /\ creq.code = 0 )
    => cres.ret = -1

C9_Witness ==
    /\ cstage = "parsed" /\ cflip = 8 * (SizeofIcmp - 1) /\ cnrecv = FullLen
    /\ creq.type = 0 /\ creq.code = 0 /\ creq.id = Id16
    /\ cres.ret = -1 /\ cres.step = "checksum"

\* parse_reply recovered the fields that were serialized
Recovered ==
    /\ cres.ret = 0
    /\ cres.reply.id = creq.id
    /\ cres.reply.seq = creq.seq
    /\ cres.reply.ts = creq.ts

RoundTripped == cstage = "parsed" /\ cflip = -1 /\ cnrecv = FullLen

\* C10 as stated: an EchoRequest (type 8, code 0) that is serialized and
\* then parsed validates and yields its identifier, sequence number and
\* timestamp.
C10_RequestRoundTrip ==
    (RoundTripped /\ creq.type = EchoRequestType /\ creq.code = 0)
    => Recovered

\* C10 as amended: a record with type 0 and code 0 that is serialized and
\* then parsed validates and yields its identifier, sequence number and
\* timestamp; any other type or code, the EchoRequest's 8 included, is
\* rejected at the type check.
C10_ReplyRoundTrip ==
    RoundTripped =>
        IF creq.type = 0 /\ creq.code = 0 THEN Recovered
        ELSE cres.ret = -1 /\ cres.step = "type"

C10_Witness ==
    /\ RoundTripped /\ ~bigEndian
    /\ creq.type = 0 /\ creq.code = 0
    /\ creq.id = Id16 /\ creq.seq = 256 /\ creq.ts = store64(TimeSec(StartMs))
    /\ Recovered

---------------------------------------------------------------------------
(* Properties of the session loop *)

\* C12 (step): a timer event moves the counter up by exactly one and, unless
\* it ends the process, hands exactly one echo request to sendto, carrying
\* the new counter value as its 16-bit sequence number; a socket event
\* changes neither the counter nor what has been transmitted.
C12_TickStep ==
    /\ last'.fd = "tfd" =>
          /\ seq' = seq + 1
          /\ pc' = "Exited" => sent' = sent
          /\ pc' = "Idle" =>
                /\ Len(sent') = Len(sent) + 1
                /\ SubSeq(sent', 1, Len(sent)) = sent
                /\ sent'[Len(sent')].k = seq'
                /\ OnWire(sent'[Len(sent')]) = WireSeq(seq')
                /\ Overlay(sent'[Len(sent')].wire).type = EchoRequestType
    /\ last'.fd = "sfd" => seq' = seq /\ sent' = sent

\* C12: one probe per tick, strictly incrementing. The counter starts at 0,
\* the first request carries sequence 1, and every step is a C12 step,
\* whatever became of the earlier probes.
C12_OneProbePerTick ==
    /\ seq = 0 /\ sent = <<>>
    /\ [](Len(sent) >= 1 => OnWire(sent[1]) = 1)
    /\ [][C12_TickStep]_vars

C12_Witness ==
    /\ last.fd = "tfd" /\ pc = "Idle"
    /\ seq = TIMEOUT + 2 /\ Len(sent) = seq
    /\ OnWire(sent[Len(sent)]) = seq
    /\ ReplyCount(out) >= 1 /\ TimeoutCount(out) >= 1

\* the loop iteration just taken met a fatal I/O condition: epoll_wait
\* failed or reported an unknown descriptor, recvfrom failed, or the timer
\* read or sendto failed (nothing was transmitted)
FatalIO ==
    \/ last'.fd = "unknown"
    \/ last'.fd = "sfd" /\ last'.dg.nrecv = -1
    \/ last'.fd = "tfd" /\ sent' = sent

\* C13: the loop is either waiting (Idle) or has terminated; an iteration
\* (Sending on the timer, Receiving on the socket) that meets no fatal I/O
\* condition returns to Idle, whatever it reported or dropped; only a fatal
\* I/O condition terminates, and after termination nothing is sent or
\* printed.
C13_LoopStep ==
    /\ pc \in {"Idle", "Exited"} /\ pc' \in {"Idle", "Exited"}
    /\ last'.fd \in {"none", "tfd", "sfd", "unknown"}
    /\ (pc = "Idle" /\ pc' = "Exited") => FatalIO
    /\ pc = "Exited" => pc' = "Exited" /\ sent' = sent /\ out' = out

C13_LoopStates == [][C13_LoopStep]_vars

\* C16: a valid reply with the session's identifier for the probe after
\* the latest one sent (a sequence number above the counter) prints no
\* line and leaves every slot as it was, the slot of the older probe with
\* the same residue mod 5 included.
C16_FutureStep ==
    Received(EchoReply(Id16, WireSeq(seq + 1))) =>
        /\ last'.printed = <<>>
        /\ send_times' = send_times

C16_OnlySentReplied == [][C16_FutureStep]_vars

\* probe k has been sent, lies in the live window and no reply line names it
InFlight(k) ==
    /\ \E n \in 1 .. Len(sent) : sent[n].k = k
    /\ seq - TIMEOUT < k /\ k <= seq
    /\ Count(out, Key(ReplyLine(k, ReplyTtl, 0))) = 0

\* C14: in every Idle state slot i holds a send time exactly when the
\* latest probe sent with residue i mod 5 is in the live window and
\* unanswered; before the first tick every slot is empty.
C14_WindowInvariant ==
    pc = "Idle" =>
        /\ \A i \in Slots :
              send_times[i] # 0 <=> \E k \in 1 .. seq : Index(k) = i /\ InFlight(k)
        /\ seq = 0 => \A i \in Slots : send_times[i] = 0

\* C17: on a network that delivers only copies of the replies to sent
\* requests, and before the 16-bit sequence number wraps, no sequence
\* number is named both by a 'reply' line and by a 'timeout' line.
C17_ExclusiveOutcomes ==
    seq < U16 =>
        \A e \in DOMAIN out :
            e.line = "reply" => Count(out, TimeoutLine(e.seq)) = 0

\* a late copy of the reply to an answered probe arrives after the tick
\* that reused the probe's slot, other probes having timed out
C17_Witness ==
    /\ \E i \in 1 .. Len(sent) :
          /\ last.fd = "sfd" /\ last.dg = ReplyTo(sent[i])
          /\ last.printed = <<>>
          /\ sent[i].k + TIMEOUT <= seq
          /\ Count(out, Key(ReplyLine(sent[i].k, ReplyTtl, 0))) = 1
    /\ TimeoutCount(out) >= 1

\* the probes whose fifth successor is sent within the run
Reportable == 1 .. (MaxSeq - TIMEOUT)

\* C18: with the timer event handled fairly, once probe k has been sent
\* then, unless the process terminates or a 'reply seq=k' line is printed,
\* 'timeout seq=k' is eventually printed, whatever arrives on the socket.
C18_LostProbeReported ==
    \A k \in Reportable :
        (seq = k /\ pc = "Idle")
            ~> \/ pc = "Exited"
               \/ Count(out, Key(ReplyLine(k, ReplyTtl, 0))) > 0
               \/ Count(out, TimeoutLine(k)) > 0

---------------------------------------------------------------------------
(* Properties of icmp_checksum *)

\* the 16-bit words of buf, an odd-length buf extended by one zero byte,
\* added up with end-around carry
OnesSum(buf) ==
    LET even == IF Len(buf) % 2 = 1 THEN buf \o <<0>> ELSE buf
        total == SumWords(even, 0, Len(even))
        c1 == (total \div U16) + (total % U16)
        c2 == (c1 \div U16) + (c1 % U16)
    IN  c2

\* C11: for a buffer of any length, even or odd, whose checksum field is
\* zero, once icmp_checksum's result is stored in the checksum field the
\* 16-bit words of the buffer add up, with end-around carry, to 0xFFFF.
C11_SelfConsistent ==
    kstage = "inserted" => OnesSum(kbuf) = U16 - 1

\* C15: for an odd-length buffer icmp_checksum returns what it returns for
\* the buffer extended by one zero byte.
C15_OddPadding ==
    kstage = "padded" => kpad = ksum

=============================================================================
